---- MODULE Spec2Model ----
(***************************************************************************)
(* Model of src/src/nsid.rs: validation and parsing of NSIDs, fragments,   *)
(* full references and references.                                         *)
(*                                                                         *)
(* A string or byte slice is a sequence of bytes (integers 0..255).  A     *)
(* &str argument is a byte sequence that is valid UTF-8.  Rust indices are *)
(* 0-based offsets; TLA+ sequences are 1-based, so byte offset i of Rust   *)
(* is element i + 1 here.                                                  *)
(***************************************************************************)
EXTENDS Integers, Sequences, FiniteSets

VARIABLES
    input,   \* the text / byte slice handed to the constructors
    op,      \* the operation executed last ("init" before any)
    value,   \* the value (or error, or abort) the last constructor returned
    out,     \* what the last accessor / Display call on `value` returned
    formatter,  \* the Formatter handed to the last Display call
    segment_len_end  \* the end of SEGMENT_LEN_RANGE, fixed for a whole run

vars == <<input, op, value, out, formatter, segment_len_end>>

----------------------------------------------------------------------------
(* Program constants *)

MAX_LEN == 317
MAX_AUTHORITY_LEN == 253
MIN_SEGMENTS == 3

\* SEGMENT_LEN_RANGE of the crate root (imported at nsid.rs:4), an inclusive
\* pair of bounds on the length of one segment.  Its start rejects the empty
\* segment.  Its end is set outside nsid.rs and the documentation gives no
\* number for it: SEGMENT_LEN_MAX is the label limit of the NSID grammar
\* (MAX_LEN = MAX_AUTHORITY_LEN + 1 + 63), and SegmentLenEnds adds the case
\* of no limit below the one on the whole identifier.
SEGMENT_LEN_MIN == 1
SEGMENT_LEN_MAX == 63

SegmentLenEnds == {SEGMENT_LEN_MAX, MAX_LEN}

Dot == 46       \* b'.'
Hash == 35      \* '#'

----------------------------------------------------------------------------
(* Byte classes (core::u8 / core::char) *)

is_ascii_alphabetic(c) == (c >= 65 /\ c <= 90) \/ (c >= 97 /\ c <= 122)

is_ascii_digit(c) == c >= 48 /\ c <= 57

is_ascii_alphanumeric(c) == is_ascii_alphabetic(c) \/ is_ascii_digit(c)

Hyphen == 45

is_continuation(c) == c >= 128 /\ c <= 191

\* the length of the character a lead byte opens; 0 for a byte that opens
\* none (a continuation byte, 0xC0, 0xC1, 0xF5..0xFF)
utf8_char_width(c) ==
    IF c < 128 THEN 1
    ELSE IF c >= 194 /\ c <= 223 THEN 2
    ELSE IF c >= 224 /\ c <= 239 THEN 3
    ELSE IF c >= 240 /\ c <= 244 THEN 4
    ELSE 0

\* the second byte of a character is a continuation byte, narrowed after
\* 0xE0, 0xED, 0xF0 and 0xF4 (no overlong forms, surrogates or > U+10FFFF)
utf8_second_ok(c, d) ==
    IF c = 224 THEN d >= 160 /\ d <= 191
    ELSE IF c = 237 THEN d >= 128 /\ d <= 159
    ELSE IF c = 240 THEN d >= 144 /\ d <= 191
    ELSE IF c = 244 THEN d >= 128 /\ d <= 143
    ELSE is_continuation(d)

\* core::str::from_utf8(b).is_ok(): every byte opens a character that is
\* complete and followed by the start of another (or the end), or continues
\* one
from_utf8_ok(b) ==
    \A i \in 1..Len(b) :
        LET c == b[i]
            w == utf8_char_width(c)
        IN IF is_continuation(c) THEN i > 1
           ELSE /\ w > 0
                /\ i + w - 1 <= Len(b)
                /\ w >= 2 => utf8_second_ok(c, b[i + 1])
                /\ \A j \in (i + 2)..(i + w - 1) : is_continuation(b[j])
                /\ i + w <= Len(b) => ~is_continuation(b[i + w])

\* str::is_char_boundary(i), i a 0-based byte offset.
is_char_boundary(s, i) ==
    \/ i = 0
    \/ i = Len(s)
    \/ (i > 0 /\ i < Len(s) /\ ~is_continuation(s[i + 1]))

----------------------------------------------------------------------------
(* Segment grammar of the crate root (imported at nsid.rs:3-5) *)

\* every byte is an ASCII letter, digit or '-'
all_domain_bytes(seg) ==
    \A i \in 1..Len(seg) : is_ascii_alphanumeric(seg[i]) \/ seg[i] = Hyphen

in_segment_len_range(n) == n >= SEGMENT_LEN_MIN /\ n <= segment_len_end

is_valid_domain_segment(seg) ==
    /\ in_segment_len_range(Len(seg))
    /\ all_domain_bytes(seg)
    /\ seg[1] # Hyphen
    /\ seg[Len(seg)] # Hyphen

is_valid_tld(seg) ==
    /\ is_valid_domain_segment(seg)
    /\ is_ascii_alphabetic(seg[1])

is_valid_nsid_name(seg) ==
    /\ in_segment_len_range(Len(seg))
    /\ is_ascii_alphabetic(seg[1])
    /\ \A i \in 1..Len(seg) : is_ascii_alphanumeric(seg[i])

----------------------------------------------------------------------------
(* Results *)

Ok == [ok |-> TRUE, kind |-> "none"]
Err(k) == [ok |-> FALSE, kind |-> k]

\* ParseError::nsid() and ParseError::nsid_fragment()
ParseError_nsid == "nsid"
ParseError_nsid_fragment == "nsid_fragment"

----------------------------------------------------------------------------
(* Values *)

NoValue == [tag |-> "None", text |-> <<>>, frag_start |-> 0, kind |-> "none"]

\* struct Nsid(String)
Nsid(s) == [tag |-> "Nsid", text |-> s, frag_start |-> 0, kind |-> "none"]

\* struct Fragment(String)
Fragment(s) == [tag |-> "Fragment", text |-> s, frag_start |-> 0, kind |-> "none"]

\* struct FullReference { text, frag_start }
FullReference(t, fs) ==
    [tag |-> "FullReference", text |-> t, frag_start |-> fs, kind |-> "none"]

\* enum Reference { Full(FullReference), Relative(Fragment) }
Reference_Full(r) == [r EXCEPT !.tag = "Reference::Full"]
Reference_Relative(f) == [f EXCEPT !.tag = "Reference::Relative"]

\* Err(ParseError) of a constructor, carrying only the error kind
ErrValue(k) == [tag |-> "Err", text |-> <<>>, frag_start |-> 0, kind |-> k]

\* a panic (Result::unwrap on Err, or a str index out of range / off a
\* character boundary)
Panic == [tag |-> "Panic", text |-> <<>>, frag_start |-> 0, kind |-> "none"]

NoOut == [tag |-> "None", text |-> <<>>, flag |-> FALSE]
OutStr(s) == [tag |-> "str", text |-> s, flag |-> FALSE]
OutBool(b) == [tag |-> "bool", text |-> <<>>, flag |-> b]
OutNsid(s) == [tag |-> "Nsid", text |-> s, flag |-> FALSE]
OutSomeFragment(s) == [tag |-> "Some(Fragment)", text |-> s, flag |-> FALSE]
OutSomeStr(s) == [tag |-> "Some(str)", text |-> s, flag |-> FALSE]
OutOptionNone == [tag |-> "Option::None", text |-> <<>>, flag |-> FALSE]
OutPanic == [tag |-> "Panic", text |-> <<>>, flag |-> FALSE]

----------------------------------------------------------------------------
(* Slices *)

\* s[lo..hi] with 0-based byte offsets: ok = FALSE is the panic of str
\* indexing (offset out of range or inside a character).
str_slice(s, lo, hi) ==
    IF lo <= hi /\ hi <= Len(s) /\ lo >= 0
       /\ is_char_boundary(s, lo) /\ is_char_boundary(s, hi)
    THEN [ok |-> TRUE, text |-> SubSeq(s, lo + 1, hi)]
    ELSE [ok |-> FALSE, text |-> <<>>]

\* 1-based positions of byte c in s
positions(s, c) == {i \in 1..Len(s) : s[i] = c}

SetMin(S) == CHOOSE x \in S : \A y \in S : x <= y

\* bytes.split(|&b| b == b'.'): the segments between the dots, in order;
\* an empty slice gives one empty segment.
RECURSIVE split(_)
split(bytes) ==
    LET dots == positions(bytes, Dot)
    IN IF dots = {} THEN <<bytes>>
       ELSE LET d == SetMin(dots)
            IN <<SubSeq(bytes, 1, d - 1)>>
               \o split(SubSeq(bytes, d + 1, Len(bytes)))

\* s.find('#'): the 0-based offset of the first '#', or -1 for None
find_hash(s) ==
    LET hs == positions(s, Hash)
    IN IF hs = {} THEN -1 ELSE SetMin(hs) - 1

\* s.starts_with('#')
starts_with_hash(s) == Len(s) >= 1 /\ s[1] = Hash

----------------------------------------------------------------------------
(* validate_nsid *)

\* segment_is_valid with the final segment held to the domain-segment
\* grammar instead of the name grammar
segment_is_valid_domain_last(segment, has_next, len) ==
    IF has_next THEN is_valid_domain_segment(segment)
    ELSE len < MAX_AUTHORITY_LEN /\ is_valid_domain_segment(segment)

\* segment_is_valid with the authority bound inclusive
segment_is_valid_le(segment, has_next, len) ==
    IF has_next THEN is_valid_domain_segment(segment)
    ELSE len <= MAX_AUTHORITY_LEN /\ is_valid_nsid_name(segment)

\* the match on it.peek() of the loop body: which predicate the segment must
\* pass, given whether another segment follows it, and the running length
segment_is_valid(segment, has_next, len) ==
    IF has_next THEN is_valid_domain_segment(segment)
    ELSE len < MAX_AUTHORITY_LEN /\ is_valid_nsid_name(segment)

\* the while-let loop over the segments after the first and the segment
\* count check after it; i is the index of the segment it.next() yields
RECURSIVE nsid_loop(_, _, _, _)
nsid_loop(segs, i, len, num_segments) ==
    IF i > Len(segs)
    THEN IF num_segments < MIN_SEGMENTS THEN Err(ParseError_nsid) ELSE Ok
    ELSE LET segment == segs[i]
             is_valid == segment_is_valid(segment, i < Len(segs), len)
         IN IF ~is_valid THEN Err(ParseError_nsid)
            ELSE nsid_loop(segs, i + 1, len + 1 + Len(segment),
                           num_segments + 1)

\* validate_nsid refusing an input of exactly MAX_LEN bytes
validate_nsid_len_ge(bytes) ==
    IF Len(bytes) >= MAX_LEN THEN Err(ParseError_nsid)
    ELSE LET segs == split(bytes)
             tld == segs[1]
         IN IF ~is_valid_tld(tld) THEN Err(ParseError_nsid)
            ELSE nsid_loop(segs, 2, Len(tld), 1)

validate_nsid(bytes) ==
    IF Len(bytes) > MAX_LEN THEN Err(ParseError_nsid)
    ELSE LET segs == split(bytes)
             tld == segs[1]
         IN IF ~is_valid_tld(tld) THEN Err(ParseError_nsid)
            ELSE nsid_loop(segs, 2, Len(tld), 1)

----------------------------------------------------------------------------
(* validate_fragment *)

\* validate_fragment letting '-' through the character check
validate_fragment_hyphen(bytes) ==
    IF ~starts_with_hash(bytes) THEN Err(ParseError_nsid_fragment)
    ELSE LET rest == SubSeq(bytes, 2, Len(bytes))
         IN IF ~in_segment_len_range(Len(rest))
            THEN Err(ParseError_nsid_fragment)
            ELSE IF ~(\A i \in 1..Len(rest) :
                          is_ascii_alphanumeric(rest[i]) \/ rest[i] = Hyphen)
            THEN Err(ParseError_nsid_fragment)
            ELSE Ok

validate_fragment(bytes) ==
    IF ~starts_with_hash(bytes) THEN Err(ParseError_nsid_fragment)
    ELSE LET rest == SubSeq(bytes, 2, Len(bytes))
         IN IF ~in_segment_len_range(Len(rest))
            THEN Err(ParseError_nsid_fragment)
            ELSE IF ~(\A i \in 1..Len(rest) : is_ascii_alphanumeric(rest[i]))
            THEN Err(ParseError_nsid_fragment)
            ELSE Ok

----------------------------------------------------------------------------
(* Constructors *)

\* <Nsid as FromStr>::from_str
Nsid_from_str(s) ==
    LET r == validate_nsid(s)
    IN IF r.ok THEN Nsid(s) ELSE ErrValue(r.kind)

\* <Nsid as TryFrom<&[u8]>>::try_from
Nsid_try_from(bytes) ==
    LET r == validate_nsid(bytes)
    IN IF r.ok
       THEN IF from_utf8_ok(bytes) THEN Nsid(bytes) ELSE Panic
       ELSE ErrValue(r.kind)

\* <Fragment as FromStr>::from_str
Fragment_from_str(s) ==
    LET r == validate_fragment(s)
    IN IF r.ok THEN Fragment(s) ELSE ErrValue(r.kind)

\* FullReference::from_str without the validation of the fragment portion
FullReference_from_str_no_fragment_check(s) ==
    LET found == find_hash(s)
        frag_start == IF found = -1 THEN Len(s) ELSE found
        nsid_s == SubSeq(s, 1, frag_start)
        rn == validate_nsid(nsid_s)
    IN IF ~rn.ok THEN ErrValue(rn.kind)
       ELSE FullReference(s, frag_start)

\* FullReference::from_str reporting a malformed fragment portion before a
\* malformed identifier portion
FullReference_from_str_fragment_first(s) ==
    LET found == find_hash(s)
        frag_start == IF found = -1 THEN Len(s) ELSE found
        nsid_s == SubSeq(s, 1, frag_start)
        frag_s == SubSeq(s, frag_start + 1, Len(s))
        rn == validate_nsid(nsid_s)
        rf == IF frag_s # <<>> THEN validate_fragment(frag_s) ELSE Ok
    IN IF ~rf.ok THEN ErrValue(rf.kind)
       ELSE IF ~rn.ok THEN ErrValue(rn.kind)
       ELSE FullReference(s, frag_start)

\* <FullReference as FromStr>::from_str
FullReference_from_str(s) ==
    LET found == find_hash(s)
        frag_start == IF found = -1 THEN Len(s) ELSE found
        nsid_s == SubSeq(s, 1, frag_start)
        frag_s == SubSeq(s, frag_start + 1, Len(s))
        rn == validate_nsid(nsid_s)
        rf == IF frag_s # <<>> THEN validate_fragment(frag_s) ELSE Ok
    IN IF ~rn.ok THEN ErrValue(rn.kind)
       ELSE IF ~rf.ok THEN ErrValue(rf.kind)
       ELSE FullReference(s, frag_start)

\* <FullReference as From<Nsid>>::from
FullReference_from_Nsid(nsid) == FullReference(nsid.text, Len(nsid.text))

\* Result::map(Reference::Relative): an Err passes through
map_Relative(v) == IF v.tag = "Err" THEN v ELSE Reference_Relative(v)

\* Result::map(Reference::Full): an Err passes through
map_Full(v) == IF v.tag = "Err" THEN v ELSE Reference_Full(v)

\* Reference::from_str dispatching on a '#' anywhere in the input
Reference_from_str_contains(s) ==
    IF positions(s, Hash) # {}
    THEN map_Relative(Fragment_from_str(s))
    ELSE map_Full(FullReference_from_str(s))

\* <Reference as FromStr>::from_str
Reference_from_str(s) ==
    IF starts_with_hash(s)
    THEN map_Relative(Fragment_from_str(s))
    ELSE map_Full(FullReference_from_str(s))

----------------------------------------------------------------------------
(* Accessors and Display *)

\* Nsid::as_str and Fragment::as_str
as_str(v) == OutStr(v.text)

\* A fmt::Formatter: the width and the precision of the format spec (-1
\* for none), its fill character and its alignment.
Formatter(w, p, fl, al) ==
    [width |-> w, precision |-> p, fill |-> fl, align |-> al]

\* the Formatter of "{}" and of to_string()
DefaultFormatter == Formatter(-1, -1, 32, "Unknown")

\* "{}", "{:.2}", "{:>8}", "{:*<6}", "{:^7}", "{:6.3}", "{:400}"
Formatters ==
    { DefaultFormatter,
      Formatter(-1, 2, 32, "Unknown"),
      Formatter(8, -1, 32, "Right"),
      Formatter(6, -1, 42, "Left"),
      Formatter(7, -1, 32, "Center"),
      Formatter(6, 3, 32, "Unknown"),
      Formatter(400, -1, 32, "Unknown") }

\* 1-based positions at which a character of s starts
char_starts(s) == {i \in 1..Len(s) : ~is_continuation(s[i])}

\* s.chars().count()
chars_count(s) == Cardinality(char_starts(s))

\* s.char_indices().nth(max) and s.get(..i): the first max characters of s,
\* all of s when it has no more
truncate_chars(s, max) ==
    IF chars_count(s) <= max THEN s
    ELSE LET i == CHOOSE k \in char_starts(s) :
                      Cardinality({j \in char_starts(s) : j < k}) = max
         IN SubSeq(s, 1, i - 1)

\* n copies of the fill character
fill_run(n, fl) == [i \in 1..n |-> fl]

\* Formatter::pad, through which <str as Display>::fmt writes s: the
\* precision truncates, the width pads (to the left-aligned default)
pad(s, f) ==
    IF f.width = -1 /\ f.precision = -1 THEN s
    ELSE LET t == IF f.precision # -1 THEN truncate_chars(s, f.precision) ELSE s
             n == chars_count(t)
         IN IF f.width = -1 \/ n >= f.width THEN t
            ELSE LET padding == f.width - n
                     pre == IF f.align = "Right" THEN padding
                            ELSE IF f.align = "Center" THEN padding \div 2
                            ELSE 0
                 IN fill_run(pre, f.fill) \o t \o fill_run(padding - pre, f.fill)

\* <Nsid as Display>::fmt: f.write_str, whatever the format spec
Nsid_fmt(v, f) == OutStr(v.text)

\* <Fragment as Display>::fmt: <String as Display>::fmt of the text
Fragment_fmt(v, f) == OutStr(pad(v.text, f))

\* Display for FullReference writing the identifier portion only
FullReference_fmt_nsid_only(r, f) == OutStr(SubSeq(r.text, 1, r.frag_start))

\* <FullReference as Display>::fmt: f.write_str, whatever the format spec
FullReference_fmt(r, f) == OutStr(r.text)

\* <Reference as Display>::fmt
Reference_fmt(v, f) ==
    IF v.tag = "Reference::Full" THEN FullReference_fmt(v, f)
    ELSE Fragment_fmt(v, f)

\* FullReference::clone_nsid
clone_nsid(r) ==
    LET sl == str_slice(r.text, 0, r.frag_start)
    IN IF sl.ok THEN OutNsid(sl.text) ELSE OutPanic

\* FullReference::has_fragment
has_fragment(r) == r.frag_start < Len(r.text)

\* FullReference::clone_fragment
clone_fragment(r) ==
    IF has_fragment(r)
    THEN LET sl == str_slice(r.text, r.frag_start, Len(r.text))
         IN IF sl.ok THEN OutSomeFragment(sl.text) ELSE OutPanic
    ELSE OutOptionNone

\* FullReference::fragment_name: then_some evaluates its argument, the
\* slice, before the flag is looked at
fragment_name(r) ==
    LET sl == str_slice(r.text, r.frag_start + 1, Len(r.text))
    IN IF ~sl.ok THEN OutPanic
       ELSE IF has_fragment(r) THEN OutSomeStr(sl.text) ELSE OutOptionNone

----------------------------------------------------------------------------
(* Inputs *)

\* most segments of a generated short input
MaxSegs == 4

\* how far around the authority-length limit the long inputs reach
Slack == 1

\* "a", "8", "a-0", "", and U+00E9 in UTF-8
SegPool == {<<97>>, <<56>>, <<97, 45, 48>>, <<>>, <<195, 169>>}

\* "", "#", "#b", "#b#c", "#b-"
SufPool == {<<>>, <<35>>, <<35, 98>>, <<35, 98, 35, 99>>, <<35, 98, 45>>}

RECURSIVE JoinFrom(_, _)
JoinFrom(segs, i) ==
    IF i > Len(segs) THEN <<>>
    ELSE IF i = Len(segs) THEN segs[i]
    ELSE segs[i] \o <<Dot>> \o JoinFrom(segs, i + 1)

\* the segments with a '.' between neighbours
Join(segs) == JoinFrom(segs, 1)

Run(n) == [i \in 1..n |-> 97]

ShortInputs ==
    { Join(ss) \o suf :
        ss \in UNION {[1..n -> SegPool] : n \in 1..MaxSegs}, suf \in SufPool }

\* five segments of letters: three of the longest length, a fourth that puts
\* the authority at, below and above MAX_AUTHORITY_LEN, and a name
LongBase == 3 * (SEGMENT_LEN_MAX + 1)

LongInputs ==
    { Join(<<Run(SEGMENT_LEN_MAX), Run(SEGMENT_LEN_MAX), Run(SEGMENT_LEN_MAX),
             Run(k), Run(n)>>) \o suf :
        k \in (MAX_AUTHORITY_LEN - LongBase - 1 - Slack)
              ..(MAX_AUTHORITY_LEN - LongBase + Slack),
        n \in {1, SEGMENT_LEN_MAX, SEGMENT_LEN_MAX + 1, SEGMENT_LEN_MAX + 2},
        suf \in {<<>>, <<35, 98>>} }
    \cup { <<Hash>> \o Run(n) :
             n \in (SEGMENT_LEN_MAX - Slack)..(SEGMENT_LEN_MAX + Slack) }
    \cup { <<Hash>> \o Run(n) : n \in (MAX_LEN - Slack)..(MAX_LEN + Slack) }

\* "a.b." and a name that puts the whole input at, below and above MAX_LEN
EdgeInputs ==
    { <<97, 46, 98, 46>> \o Run(n) \o suf :
        n \in (MAX_LEN - 4 - Slack)..(MAX_LEN - 4 + Slack),
        suf \in {<<>>, <<35, 98>>} }

\* the strings of the tests and of the examples of the documentation
Examples == {
    <<99, 111, 109, 46, 101, 120, 97, 109, 112, 108, 101, 46, 102, 111, 111, 66, 97, 114>>,  \* "com.example.fooBar"
    <<110, 101, 116, 46, 117, 115, 101, 114, 115, 46, 98, 111, 98, 46, 112, 105, 110, 103>>,  \* "net.users.bob.ping"
    <<97, 45, 48, 46, 98, 45, 49, 46, 99>>,  \* "a-0.b-1.c"
    <<97, 46, 98, 46, 99>>,  \* "a.b.c"
    <<99, 110, 46, 56, 46, 108, 101, 120, 46, 115, 116, 117, 102, 102>>,  \* "cn.8.lex.stuff"
    <<99, 111, 109, 46, 101, 120, 97, 240, 159, 164, 175, 112, 108, 101, 46, 116, 104, 105, 110, 103>>,  \* "com.exa<U+1F92F>ple.thing"
    <<99, 111, 109, 46, 101, 120, 97, 109, 112, 108, 101>>,  \* "com.example"
    <<35, 102, 111, 111, 66, 97, 114, 49>>,  \* "#fooBar1"
    <<35, 97, 98, 99>>,  \* "#abc"
    <<99, 111, 109, 46, 101, 120, 97, 109, 112, 108, 101, 46, 102, 111, 111>>,  \* "com.example.foo"
    <<99, 111, 109, 46, 101, 120, 97, 109, 112, 108, 101, 46, 102, 111, 111, 35, 98, 97, 114>>,  \* "com.example.foo#bar"
    <<35, 102, 111, 111, 45, 98, 97, 114>>,  \* "#foo-bar"
    <<35, 102, 111, 111, 95, 98, 97, 114>>,  \* "#foo_bar"
    <<35, 102, 111, 111, 32, 98, 97, 114>>,  \* "#foo bar"
    <<102, 111, 111, 66, 97, 114, 49>>,  \* "fooBar1"
    <<35, 195, 169>>,  \* "#" U+00E9
    <<>> }

\* byte slices that are not UTF-8, for TryFrom<&[u8]>: a lone 0xFF, a lone
\* continuation byte, a truncated two-byte character
RawInputs == {
    <<255, 46, 97, 46, 97>>,
    <<97, 46, 255, 46, 97>>,
    <<97, 46, 97, 46, 255>>,
    <<97, 46, 97, 46, 97, 128>>,
    <<97, 46, 97, 46, 195>> }

Inputs == ShortInputs \cup LongInputs \cup EdgeInputs \cup Examples \cup RawInputs

----------------------------------------------------------------------------
(* The state machine: one constructor is applied to the input, then one     *)
(* accessor or Display call (or the From<Nsid> conversion) to its value.    *)

Init ==
    /\ input \in Inputs
    /\ segment_len_end = SEGMENT_LEN_MAX
    /\ op = "init"
    /\ value = NoValue
    /\ out = NoOut
    /\ formatter = DefaultFormatter

\* the same, with either end of SEGMENT_LEN_RANGE
InitAnyRange ==
    /\ input \in Inputs
    /\ segment_len_end \in SegmentLenEnds
    /\ op = "init"
    /\ value = NoValue
    /\ out = NoOut
    /\ formatter = DefaultFormatter

Construct(name, v) ==
    /\ op = "init"
    /\ op' = name
    /\ value' = v
    /\ UNCHANGED <<input, out, formatter, segment_len_end>>

Observe(name, tags, o) ==
    /\ value.tag \in tags
    /\ out = NoOut
    /\ op' = name
    /\ out' = o
    /\ UNCHANGED <<input, value, formatter, segment_len_end>>

\* a Display call on &self with the Formatter f of the caller's format spec
Render(name, tags, f, o) ==
    /\ value.tag \in tags
    /\ out = NoOut
    /\ op' = name
    /\ out' = o
    /\ formatter' = f
    /\ UNCHANGED <<input, value, segment_len_end>>

\* the FromStr constructors take a &str: the input is well-formed UTF-8
DoNsidFromStr ==
    /\ from_utf8_ok(input) = TRUE
    /\ Construct("Nsid::from_str", Nsid_from_str(input))

DoNsidTryFrom == Construct("Nsid::try_from", Nsid_try_from(input))

DoFragmentFromStr ==
    /\ from_utf8_ok(input) = TRUE
    /\ Construct("Fragment::from_str", Fragment_from_str(input))

DoFullReferenceFromStr ==
    /\ from_utf8_ok(input) = TRUE
    /\ Construct("FullReference::from_str", FullReference_from_str(input))

DoReferenceFromStr ==
    /\ from_utf8_ok(input) = TRUE
    /\ Construct("Reference::from_str", Reference_from_str(input))

DoFromNsid ==
    /\ value.tag = "Nsid"
    /\ out = NoOut
    /\ op' = "FullReference::from"
    /\ value' = FullReference_from_Nsid(value)
    /\ UNCHANGED <<input, out, formatter, segment_len_end>>

DoNsidAsStr == Observe("Nsid::as_str", {"Nsid"}, as_str(value))

DoNsidFmt ==
    \E f \in Formatters : Render("Nsid::fmt", {"Nsid"}, f, Nsid_fmt(value, f))

DoFragmentAsStr == Observe("Fragment::as_str", {"Fragment"}, as_str(value))

DoFragmentFmt ==
    \E f \in Formatters :
        Render("Fragment::fmt", {"Fragment"}, f, Fragment_fmt(value, f))

DoFullReferenceFmt ==
    \E f \in Formatters :
        Render("FullReference::fmt", {"FullReference"}, f,
               FullReference_fmt(value, f))

DoReferenceFmt ==
    \E f \in Formatters :
        Render("Reference::fmt", {"Reference::Full", "Reference::Relative"}, f,
               Reference_fmt(value, f))

DoCloneNsid == Observe("clone_nsid", {"FullReference"}, clone_nsid(value))

DoHasFragment ==
    Observe("has_fragment", {"FullReference"}, OutBool(has_fragment(value)))

DoCloneFragment ==
    Observe("clone_fragment", {"FullReference"}, clone_fragment(value))

DoFragmentName ==
    Observe("fragment_name", {"FullReference"}, fragment_name(value))

Next ==
    \/ DoNsidFromStr
    \/ DoNsidTryFrom
    \/ DoFragmentFromStr
    \/ DoFullReferenceFromStr
    \/ DoReferenceFromStr
    \/ DoFromNsid
    \/ DoNsidAsStr
    \/ DoNsidFmt
    \/ DoFragmentAsStr
    \/ DoFragmentFmt
    \/ DoFullReferenceFmt
    \/ DoReferenceFmt
    \/ DoCloneNsid
    \/ DoHasFragment
    \/ DoCloneFragment
    \/ DoFragmentName

Spec == Init /\ [][Next]_vars

SpecAnyRange == InitAnyRange /\ [][Next]_vars

TypeOK ==
    /\ op \in STRING
    /\ segment_len_end \in SegmentLenEnds
    /\ formatter \in Formatters
    /\ value.tag \in {"None", "Nsid", "Fragment", "FullReference",
                      "Reference::Full", "Reference::Relative", "Err", "Panic"}
    /\ out.tag \in {"None", "str", "bool", "Nsid", "Some(Fragment)",
                    "Some(str)", "Option::None", "Panic"}

----------------------------------------------------------------------------
(* Vocabulary of the properties, stated on the text alone *)

LastSeg(b) == split(b)[Len(split(b))]

\* bytes of all segments before the last, joined by their separators
AuthorityLen(b) == Len(b) - Len(LastSeg(b)) - 1

\* first segment a TLD, interior segments domain segments, last one a name
SegmentsValid(b) ==
    LET segs == split(b)
    IN /\ is_valid_tld(segs[1])
       /\ \A i \in 2..(Len(segs) - 1) : is_valid_domain_segment(segs[i])
       /\ is_valid_nsid_name(segs[Len(segs)])

NsidWellFormed(b) ==
    /\ Len(b) <= MAX_LEN
    /\ Len(split(b)) >= MIN_SEGMENTS
    /\ SegmentsValid(b)
    /\ AuthorityLen(b) < MAX_AUTHORITY_LEN

FragmentWellFormed(b) ==
    /\ Len(b) >= 1
    /\ b[1] = Hash
    /\ in_segment_len_range(Len(b) - 1)
    /\ \A i \in 2..Len(b) : is_ascii_alphanumeric(b[i])

HasHash(t) == \E i \in 1..Len(t) : t[i] = Hash

FirstHash(t) == CHOOSE i \in 1..Len(t) : t[i] = Hash /\ \A j \in 1..(i - 1) : t[j] # Hash

\* the part of t before the first '#' (all of t when there is none)
BeforeHash(t) == IF HasHash(t) THEN SubSeq(t, 1, FirstHash(t) - 1) ELSE t

\* the rest of t starting at the first '#' (empty when there is none)
FromHash(t) == IF HasHash(t) THEN SubSeq(t, FirstHash(t), Len(t)) ELSE <<>>

NsidOps == {"Nsid::from_str", "Nsid::try_from"}

Str_a_b_c == <<97, 46, 98, 46, 99>>
Str_com_example == <<99, 111, 109, 46, 101, 120, 97, 109, 112, 108, 101>>
Str_com_example_foo ==
    <<99, 111, 109, 46, 101, 120, 97, 109, 112, 108, 101, 46, 102, 111, 111>>
Str_com_example_foo_bar == Str_com_example_foo \o <<35, 98, 97, 114>>
Str_hash_abc == <<35, 97, 98, 99>>
Str_hash_fooBar1 == <<35, 102, 111, 111, 66, 97, 114, 49>>

----------------------------------------------------------------------------
(* C1 *)

\* C1: Nsid::from_str and TryFrom<&[u8]> return Ok exactly for the inputs
\* that are at most MAX_LEN long, have at least MIN_SEGMENTS segments, a
\* valid TLD first, valid domain segments in between, a valid name last and
\* an authority shorter than MAX_AUTHORITY_LEN; "com.example" and the empty
\* input are rejected and "a.b.c" is accepted.
C1_NsidAcceptedIffWellFormed ==
    op \in NsidOps =>
        /\ (value.tag = "Nsid") <=> NsidWellFormed(input)
        /\ Len(split(input)) < MIN_SEGMENTS => value.tag = "Err"
        /\ input \in {Str_com_example, <<>>} => value.tag = "Err"
        /\ input = Str_a_b_c => value.tag = "Nsid"

C1_Witness ==
    /\ op = "Nsid::try_from"
    /\ input = Str_a_b_c
    /\ value.tag = "Nsid"

----------------------------------------------------------------------------
(* C2 *)

\* C2: an input of exactly MAX_LEN bytes with at least MIN_SEGMENTS
\* segments, every segment valid for its place (its length in
\* SEGMENT_LEN_RANGE) and an authority shorter than MAX_AUTHORITY_LEN is
\* accepted, and every input of MAX_LEN + 1 bytes is rejected.
C2_TotalLengthBoundary ==
    op \in NsidOps =>
        /\ (/\ Len(input) = MAX_LEN
            /\ Len(split(input)) >= MIN_SEGMENTS
            /\ SegmentsValid(input)
            /\ AuthorityLen(input) < MAX_AUTHORITY_LEN)
           => value.tag = "Nsid"
        /\ Len(input) = MAX_LEN + 1 => value.tag = "Err"

C2_Witness ==
    /\ op = "Nsid::from_str"
    /\ Len(input) = MAX_LEN
    /\ Len(split(input)) >= MIN_SEGMENTS
    /\ SegmentsValid(input)
    /\ AuthorityLen(input) < MAX_AUTHORITY_LEN
    /\ value.tag = "Nsid"

----------------------------------------------------------------------------
(* C3 *)

\* C3: of the inputs with at least MIN_SEGMENTS segments, all valid for
\* their place, one whose authority is MAX_AUTHORITY_LEN - 1 bytes is
\* accepted and one whose authority is MAX_AUTHORITY_LEN bytes is rejected.
C3_AuthorityBoundary ==
    (/\ op \in NsidOps
     /\ Len(split(input)) >= MIN_SEGMENTS
     /\ SegmentsValid(input))
    => /\ AuthorityLen(input) = MAX_AUTHORITY_LEN - 1 => value.tag = "Nsid"
       /\ AuthorityLen(input) = MAX_AUTHORITY_LEN => value.tag = "Err"

C3_Witness ==
    /\ op = "Nsid::from_str"
    /\ Len(split(input)) >= MIN_SEGMENTS
    /\ SegmentsValid(input)
    /\ AuthorityLen(input) = MAX_AUTHORITY_LEN - 1
    /\ Len(LastSeg(input)) = SEGMENT_LEN_MAX
    /\ value.tag = "Nsid"

----------------------------------------------------------------------------
(* C4 *)

\* C4: Fragment::from_str returns Ok exactly for the inputs that start with
\* '#', whose remainder has a length in SEGMENT_LEN_RANGE and only ASCII
\* letters and digits.
C4_FragmentAcceptedIffWellFormed ==
    op = "Fragment::from_str" =>
        /\ (value.tag = "Fragment") <=> FragmentWellFormed(input)
        /\ input = <<Hash>> => value.tag = "Err"
        /\ input = Str_hash_fooBar1 => value.tag = "Fragment"

C4_Witness ==
    /\ op = "Fragment::from_str"
    /\ input = Str_hash_fooBar1
    /\ value.tag = "Fragment"

----------------------------------------------------------------------------
(* C5 *)

\* C5: every FullReference has 0 < frag_start <= text.len(), a valid NSID as
\* text[..frag_start], and either no fragment (frag_start = text.len()) or a
\* valid fragment starting with '#' as text[frag_start..]; the one built by
\* From<Nsid> has the identifier's text and its length as frag_start.
C5_FullReferenceInvariant ==
    value.tag = "FullReference" =>
        /\ 0 < value.frag_start
        /\ value.frag_start <= Len(value.text)
        /\ NsidWellFormed(SubSeq(value.text, 1, value.frag_start))
        /\ \/ value.frag_start = Len(value.text)
           \/ /\ value.text[value.frag_start + 1] = Hash
              /\ FragmentWellFormed(
                     SubSeq(value.text, value.frag_start + 1, Len(value.text)))
        /\ op = "FullReference::from" =>
               /\ value.text = input
               /\ value.frag_start = Len(input)

C5_Witness ==
    /\ op = "FullReference::from_str"
    /\ value.tag = "FullReference"
    /\ value.frag_start < Len(value.text)

----------------------------------------------------------------------------
(* C6 *)

\* C6: Reference::from_str looks at the first character only: an input that
\* begins with '#' gives Fragment::from_str's result as Reference::Relative
\* and never a Full, any other input gives FullReference::from_str's result
\* as Reference::Full and never a Relative; "#abc" is a Relative and
\* "com.example.foo" is a Full without fragment.
C6_ReferenceDispatch ==
    op = "Reference::from_str" =>
        /\ IF Len(input) >= 1 /\ input[1] = Hash
           THEN /\ value.tag # "Reference::Full"
                /\ (value.tag = "Reference::Relative") <=> FragmentWellFormed(input)
                /\ value = map_Relative(Fragment_from_str(input))
           ELSE /\ value.tag # "Reference::Relative"
                /\ (value.tag = "Reference::Full")
                       <=> /\ NsidWellFormed(BeforeHash(input))
                           /\ HasHash(input) => FragmentWellFormed(FromHash(input))
                /\ value = map_Full(FullReference_from_str(input))
        /\ input = Str_hash_abc => value.tag = "Reference::Relative"
        /\ input = Str_com_example_foo =>
               /\ value.tag = "Reference::Full"
               /\ ~has_fragment(value)
               /\ clone_fragment(value) = OutOptionNone

C6_Witness ==
    /\ op = "Reference::from_str"
    /\ HasHash(input)
    /\ value.tag = "Reference::Full"

----------------------------------------------------------------------------
(* C7 *)

DisplayOps ==
    {"Nsid::as_str", "Nsid::fmt", "Fragment::as_str", "Fragment::fmt",
     "FullReference::fmt", "Reference::fmt"}

\* the Display calls that write the text with f.write_str
WriteStrOps == {"Nsid::fmt", "FullReference::fmt"}

\* a format spec with neither a width nor a precision, as "{}" and
\* to_string() have
PlainFormatter(f) == f.width = -1 /\ f.precision = -1

\* C7: the text rendered from a parsed Nsid, Fragment, FullReference or
\* Reference (and from a FullReference converted from a parsed Nsid) is the
\* parsed input, byte for byte: by as_str, by Display under "{}" and
\* to_string(), and by the Display of Nsid, FullReference and a full
\* Reference under every format spec.
C7_RoundTrip ==
    /\ op \in DisplayOps /\ PlainFormatter(formatter) => out = OutStr(input)
    /\ op \in WriteStrOps => out = OutStr(input)
    /\ op = "Reference::fmt" /\ value.tag = "Reference::Full"
           => out = OutStr(input)

C7_Witness ==
    /\ op = "FullReference::fmt"
    /\ has_fragment(value)
    /\ formatter = DefaultFormatter
    /\ out = OutStr(input)

----------------------------------------------------------------------------
(* C8 *)

\* C8: a failing Nsid construction fails with the nsid kind, a failing
\* Fragment construction with the fragment kind; FullReference::from_str
\* fails with the nsid kind exactly when the part before the first '#' is no
\* valid identifier and with the fragment kind exactly when that part is
\* valid and the non-empty rest is no valid fragment; an error carries no
\* part of a value.
C8_ErrorKinds ==
    /\ (op \in NsidOps /\ value.tag # "Nsid") => value = ErrValue(ParseError_nsid)
    /\ (op = "Fragment::from_str" /\ value.tag # "Fragment")
           => value = ErrValue(ParseError_nsid_fragment)
    /\ op = "FullReference::from_str" =>
           /\ (value = ErrValue(ParseError_nsid))
                  <=> ~NsidWellFormed(BeforeHash(input))
           /\ (value = ErrValue(ParseError_nsid_fragment))
                  <=> /\ NsidWellFormed(BeforeHash(input))
                      /\ FromHash(input) # <<>>
                      /\ ~FragmentWellFormed(FromHash(input))
           /\ value.tag \in {"FullReference", "Err"}

C8_Witness ==
    /\ op = "FullReference::from_str"
    /\ ~NsidWellFormed(BeforeHash(input))
    /\ FromHash(input) # <<>>
    /\ ~FragmentWellFormed(FromHash(input))
    /\ value = ErrValue(ParseError_nsid)

----------------------------------------------------------------------------
(* C9 *)

\* C9: for a FullReference with text t, clone_nsid is the valid Nsid before
\* the first '#', has_fragment tells whether t contains '#', clone_fragment
\* and fragment_name are present exactly when it does, and then are the rest
\* of t from '#' and that rest without the '#'.
C9_DerivedViews ==
    value.tag = "FullReference" =>
        LET t == value.text
        IN /\ op = "clone_nsid" =>
                  /\ out = OutNsid(BeforeHash(t))
                  /\ NsidWellFormed(out.text)
           /\ op = "has_fragment" => out = OutBool(HasHash(t))
           /\ op = "clone_fragment" =>
                  IF HasHash(t)
                  THEN /\ out = OutSomeFragment(FromHash(t))
                       /\ BeforeHash(t) \o out.text = t
                  ELSE out = OutOptionNone
           /\ op = "fragment_name" =>
                  IF HasHash(t)
                  THEN out = OutSomeStr(Tail(FromHash(t)))
                  ELSE out = OutOptionNone

----------------------------------------------------------------------------
(* C10 *)

\* C10: no constructor and no accessor aborts: TryFrom<&[u8]> never unwraps
\* a failed String::from_utf8, and the slices of clone_nsid, clone_fragment
\* and fragment_name are within the text and on character boundaries.
C10_NoAbort ==
    /\ value.tag # "Panic"
    /\ out.tag # "Panic"

====
